---- MODULE Spec2Model ----
(***************************************************************************)
(* Falling-tile rhythm game (src/game.js): Tile, TileSystem,               *)
(* GameStateManager and GameEngine as one state machine.                   *)
(*                                                                         *)
(* Units.  Time is counted in tenths of a second (0.1 s), so the 100 ms    *)
(* destroy delay is 1 and SPAWN_INTERVAL (0.6 s) is 6.  The reals of the   *)
(* source are kept exact in fixed point:                                   *)
(*   difficulty   in 1/200        (delta * 0.05 is 1/200 per time unit)    *)
(*   speed        in 1/200 px/s                                            *)
(*   y            in 1/2000 px    (speed * delta)                          *)
(***************************************************************************)
EXTENDS Integers, Sequences, FiniteSets

\* ---- CONFIG (src/game.js:5-15) ----
COLUMNS == 4
TILE_HEIGHT == 100
SPAWN_INTERVAL == 6
INITIAL_SPEED == 300
SPEED_INCREASE == 10
HIT_ZONE_TOLERANCE == 50
PERFECT_TOLERANCE == 20
COMBO_MULTIPLIER_INCREASE == 5

\* difficulty 1.0 in fixed point: increaseDifficulty adds delta * 0.05,
\* which is 1/200 per tenth of a second
DIFFICULTY_ONE == 200
\* fixed-point units of y per pixel: speed (1/200 px/s) times delta (1/10 s)
PX == DIFFICULTY_ONE * 10
\* setTimeout(() => tile.destroy(), 100): 100 ms in tenths of a second
DESTROY_DELAY == 1

\* ---- layout read from the DOM by the GameEngine constructor ----
GAME_AREA_HEIGHT == 120
HIT_LINE_Y == 100

\* ---- bounds of the model ----
\* the clock (performance.now(), in tenths of a second) stops here
MaxTime == 13
\* SpecEngine stops dispatching tileClicked events at this combo
MaxCombo == 6
\* largest delta, in tenths of a second, of the advances that are compared
MaxAdvance == 3
\* largest delta, in tenths of a second, between two frames of SpecLive
MaxFrameDelta == 2

VARIABLES
    currentState,   \* GameStateManager.currentState
    score, combo, bestCombo, multiplier,
    finalScoreText, \* finalScoreElement.textContent
    bestComboText,  \* bestComboElement.textContent
    tiles,          \* TileSystem.tiles
    detached,       \* Tile objects no longer in TileSystem.tiles
    spawnTimer, currentSpeed, difficulty,
    lastTime, running,
    rafPending,     \* number of requestAnimationFrame callbacks pending
    now,            \* performance.now()
    dispatched      \* DOM events the last step handled, in dispatch order

vars == <<currentState, score, combo, bestCombo, multiplier, finalScoreText,
          bestComboText, tiles, detached, spawnTimer, currentSpeed, difficulty,
          lastTime, running, rafPending, now, dispatched>>

scoreVars == <<score, combo, bestCombo, multiplier>>
displayVars == <<finalScoreText, bestComboText>>
tileSystemVars == <<tiles, detached, spawnTimer, currentSpeed, difficulty>>
engineVars == <<lastTime, running, rafPending>>

MENU == "MENU"
PLAYING == "PLAYING"
GAMEOVER == "GAMEOVER"
GAME_STATES == {MENU, PLAYING, GAMEOVER}

Abs(x) == IF x < 0 THEN -x ELSE x

\* ---- Tile ----
\* events, kind and born are history fields: the number of
\* tileClicked/tileMissed events dispatched for the tile, the judgment the
\* engine gave it, and the time from which its first advance is measured
\* (lastTime when the tick that creates it begins)
NewTile(column, speed) ==
    [column |-> column, y |-> -(TILE_HEIGHT * PX), speed |-> speed,
     active |-> TRUE, clicked |-> FALSE,
     timerPending |-> FALSE, timerDue |-> 0,
     events |-> 0, kind |-> "none", born |-> lastTime]

\* an advance by a fixed step per frame, whatever the delta
TileUpdatePerFrame(t, delta) ==
    IF ~t.active THEN t ELSE [t EXCEPT !.y = @ + t.speed]

\* Tile.update(delta)
TileUpdate(t, delta) ==
    IF ~t.active THEN t ELSE [t EXCEPT !.y = @ + t.speed * delta]

TileDestroy(t) == [t EXCEPT !.active = FALSE]

\* the early return of Tile.onClick
onClickIgnored(t) == ~t.active \/ t.clicked

\* a tile that left TileSystem.tiles is inactive: its position, column and
\* speed are never read again, and its history of advances is over
Detach(t) == [t EXCEPT !.y = 0, !.column = 0, !.speed = 0, !.born = 0]

\* ---- TileSystem ----
\* isInHitZone with the boundary excluded
isInHitZoneStrict(tileY) ==
    LET tileCenter == tileY + (TILE_HEIGHT * PX) \div 2
        distance == Abs(tileCenter - HIT_LINE_Y * PX)
    IN  distance < HIT_ZONE_TOLERANCE * PX

isInHitZone(tileY) ==
    LET tileCenter == tileY + (TILE_HEIGHT * PX) \div 2
        distance == Abs(tileCenter - HIT_LINE_Y * PX)
    IN  distance <= HIT_ZONE_TOLERANCE * PX

isPerfectHit(tileY) ==
    LET tileCenter == tileY + (TILE_HEIGHT * PX) \div 2
        distance == Abs(tileCenter - HIT_LINE_Y * PX)
    IN  distance <= PERFECT_TOLERANCE * PX

\* the tiles after the spawn step of TileSystem.update
Spawned(delta, column) ==
    IF spawnTimer + delta >= SPAWN_INTERVAL
    THEN Append(tiles, NewTile(column, currentSpeed))
    ELSE tiles

\* an accumulator that keeps the excess over SPAWN_INTERVAL
SpawnTimerCarry(delta) ==
    IF spawnTimer + delta >= SPAWN_INTERVAL
    THEN spawnTimer + delta - SPAWN_INTERVAL
    ELSE spawnTimer + delta

\* spawnTimer after the spawn step of TileSystem.update
SpawnTimerAfter(delta) ==
    IF spawnTimer + delta >= SPAWN_INTERVAL THEN 0 ELSE spawnTimer + delta

\* the tile after tile.update(delta) in the loop of TileSystem.update
Moved(t, delta) == TileUpdate(t, delta)

\* the miss test without its !tile.clicked
IsMissedAnyTile(t) == t.active /\ t.y > GAME_AREA_HEIGHT * PX

\* the miss test of TileSystem.update, on the moved tile
IsMissed(t) == t.active /\ t.y > GAME_AREA_HEIGHT * PX /\ ~t.clicked

\* indices of the tiles that TileSystem.update reports missed
MissedIdx(ts, delta) == {i \in 1..Len(ts) : IsMissed(Moved(ts[i], delta))}

\* the loop runs from the last index down: the first tileMissed event is
\* the one of the largest index, and only that one finds the state PLAYING
FirstMissed(ts, delta) ==
    CHOOSE i \in MissedIdx(ts, delta) : \A j \in MissedIdx(ts, delta) : j <= i

\* tiles kept by the loop of TileSystem.update
Kept(ts, delta) ==
    LET moved == [i \in 1..Len(ts) |-> Moved(ts[i], delta)]
    IN  SelectSeq(moved, LAMBDA t : t.active /\ ~IsMissed(t))

\* tiles spliced out by the loop of TileSystem.update
Spliced(ts, delta, state) ==
    {Detach(ts[i]) : i \in {j \in 1..Len(ts) : ~ts[j].active}}
    \cup
    {Detach([TileDestroy(Moved(ts[i], delta)) EXCEPT
                !.events = @ + 1,
                !.kind = IF state = PLAYING /\ i = FirstMissed(ts, delta)
                         THEN "miss" ELSE "discarded"]) :
        i \in MissedIdx(ts, delta)}

\* a difficulty curve that slows the tiles down
SpeedOfSlowing(d) == INITIAL_SPEED * DIFFICULTY_ONE - d * SPEED_INCREASE

\* currentSpeed as computed by increaseDifficulty
SpeedOf(d) == INITIAL_SPEED * DIFFICULTY_ONE + d * SPEED_INCREASE

\* ---- GameStateManager ----
\* the multiplier without its + 1
MultiplierOfNoBase(c) == c \div COMBO_MULTIPLIER_INCREASE

MultiplierOf(c) == (c \div COMBO_MULTIPLIER_INCREASE) + 1

BasePoints(isPerfect) == IF isPerfect THEN 150 ELSE 100

\* the judgment handleTileClick gives a click at position y
Judge(y) ==
    IF isInHitZone(y)
    THEN (IF isPerfectHit(y) THEN "perfect" ELSE "good")
    ELSE "bad"

\* setState(GAME_STATES.GAMEOVER)
setStateGameOver ==
    /\ currentState' = GAMEOVER
    /\ finalScoreText' = score
    /\ bestComboText' = bestCombo

\* a resetScore that keeps the best combo of the session before
setStatePlayingKeepsBest ==
    /\ currentState' = PLAYING
    /\ score' = 0
    /\ combo' = 0
    /\ bestCombo' = bestCombo
    /\ multiplier' = 1
    /\ UNCHANGED displayVars

\* setState(GAME_STATES.PLAYING), resetScore included
setStatePlaying ==
    /\ currentState' = PLAYING
    /\ score' = 0
    /\ combo' = 0
    /\ bestCombo' = 0
    /\ multiplier' = 1
    /\ UNCHANGED displayVars

\* addScore that raises the multiplier before it scores
addScoreLate(isPerfect) ==
    /\ score' = score + BasePoints(isPerfect) * MultiplierOf(combo + 1)
    /\ combo' = combo + 1
    /\ bestCombo' = IF combo + 1 > bestCombo THEN combo + 1 ELSE bestCombo
    /\ multiplier' = MultiplierOf(combo + 1)

addScore(isPerfect) ==
    /\ score' = score + BasePoints(isPerfect) * multiplier
    /\ combo' = combo + 1
    /\ bestCombo' = IF combo + 1 > bestCombo THEN combo + 1 ELSE bestCombo
    /\ multiplier' = MultiplierOf(combo + 1)

\* ---- GameEngine ----
\* gameOver that also clears the score
gameOverClearsScore ==
    /\ setStateGameOver
    /\ score' = 0
    /\ UNCHANGED <<combo, bestCombo, multiplier>>

\* gameOver that goes back to the menu
gameOverToMenu ==
    /\ currentState' = MENU
    /\ UNCHANGED <<scoreVars, displayVars>>

gameOver == setStateGameOver /\ UNCHANGED scoreVars

\* handleTileClick without its state check
handleTileClickAnyState(y) ==
    IF isInHitZone(y)
    THEN addScore(isPerfectHit(y)) /\ UNCHANGED <<currentState, displayVars>>
    ELSE gameOver

handleTileClick(y) ==
    IF currentState # PLAYING
    THEN UNCHANGED <<currentState, scoreVars, displayVars>>
    ELSE IF isInHitZone(y)
         THEN addScore(isPerfectHit(y)) /\ UNCHANGED <<currentState, displayVars>>
         ELSE gameOver

\* handleTileMiss that does not end the run
handleTileMissIgnored == UNCHANGED <<currentState, scoreVars, displayVars>>

handleTileMiss ==
    IF currentState # PLAYING
    THEN UNCHANGED <<currentState, scoreVars, displayVars>>
    ELSE gameOver

\* what the engine made of a click at y: the tile's history field
ClickKind(y) == IF currentState # PLAYING THEN "discarded" ELSE Judge(y)

\* the tileClicked event of a click at y, as recorded in dispatched
ClickEvent(y) ==
    [type |-> "tileClicked", kind |-> ClickKind(y), state |-> currentState, y |-> y]

\* a click on a button, as recorded in dispatched
ButtonEvent(button) ==
    [type |-> button, kind |-> "none", state |-> currentState, y |-> 0]

\* the tile after Tile.onClick passed its early return and handleTileClick ran:
\* a hit arms setTimeout(() => tile.destroy(), 100)
Clicked(t) ==
    [t EXCEPT !.clicked = TRUE,
              !.events = @ + 1,
              !.kind = ClickKind(t.y),
              !.timerPending = ClickKind(t.y) \in {"perfect", "good"},
              !.timerDue = IF ClickKind(t.y) \in {"perfect", "good"}
                           THEN now + DESTROY_DELAY ELSE 0]

\* Tile.onClick of tiles[i], the tileClicked event and its handler
TileClick(i) ==
    LET t == tiles[i] IN
    /\ i \in 1..Len(tiles)
    /\ IF onClickIgnored(t)
       THEN /\ dispatched' = <<>>
            /\ UNCHANGED <<currentState, scoreVars, displayVars, tiles>>
       ELSE /\ handleTileClick(t.y)
            /\ tiles' = [tiles EXCEPT ![i] = Clicked(t)]
            /\ dispatched' = <<ClickEvent(t.y)>>
    /\ UNCHANGED <<detached, spawnTimer, currentSpeed, difficulty, engineVars, now>>

\* Tile.onClick of a tile that left TileSystem.tiles
DetachedTileClick(t) ==
    /\ t \in detached
    /\ IF onClickIgnored(t)
       THEN /\ dispatched' = <<>>
            /\ UNCHANGED <<currentState, scoreVars, displayVars, detached>>
       ELSE /\ handleTileClick(t.y)
            /\ detached' = (detached \ {t}) \cup {Clicked(t)}
            /\ dispatched' = <<ClickEvent(t.y)>>
    /\ UNCHANGED <<tiles, spawnTimer, currentSpeed, difficulty, engineVars, now>>

\* the tile after the callback of setTimeout(() => tile.destroy(), 100)
TimedOut(t) == [TileDestroy(t) EXCEPT !.timerPending = FALSE, !.timerDue = 0]

\* the setTimeout callback of a tile still in TileSystem.tiles
DestroyTimeout(i) ==
    /\ i \in 1..Len(tiles)
    /\ tiles[i].timerPending
    /\ now >= tiles[i].timerDue
    /\ tiles' = [tiles EXCEPT ![i] = TimedOut(tiles[i])]
    /\ dispatched' = <<>>
    /\ UNCHANGED <<currentState, scoreVars, displayVars, detached, spawnTimer,
                   currentSpeed, difficulty, engineVars, now>>

\* the same callback for a tile that left TileSystem.tiles
DetachedDestroyTimeout(t) ==
    /\ t \in detached
    /\ t.timerPending
    /\ now >= t.timerDue
    /\ detached' = (detached \ {t}) \cup {TimedOut(t)}
    /\ dispatched' = <<>>
    /\ UNCHANGED <<currentState, scoreVars, displayVars, tiles, spawnTimer,
                   currentSpeed, difficulty, engineVars, now>>

\* a reset that destroys and removes only the tiles nobody tapped, leaving the
\* tapped ones to their destroy timers
resetKeepsClicked ==
    /\ detached' = detached \cup
                   {Detach(TileDestroy(tiles[i])) :
                        i \in {j \in 1..Len(tiles) : ~tiles[j].clicked}}
    /\ tiles' = SelectSeq(tiles, LAMBDA t : t.clicked)
    /\ spawnTimer' = 0
    /\ difficulty' = DIFFICULTY_ONE

\* TileSystem.reset, but for currentSpeed (see startGame)
reset ==
    /\ detached' = detached \cup
                   {Detach(TileDestroy(tiles[i])) : i \in 1..Len(tiles)}
    /\ tiles' = <<>>
    /\ spawnTimer' = 0
    /\ difficulty' = DIFFICULTY_ONE

\* startGame without its if (!this.running): every request starts a loop
startGameAlwaysLoops ==
    /\ reset
    /\ setStatePlaying
    /\ running' = TRUE
    /\ lastTime' = now
    /\ currentSpeed' = SpeedOf(DIFFICULTY_ONE + (now - now))
    /\ rafPending' = rafPending + 1
    /\ UNCHANGED now

\* GameEngine.startGame.  reset() leaves currentSpeed at INITIAL_SPEED.  When
\* the loop is not running yet, loop() runs inside startGame with
\* delta = now - now: update(0) spawns nothing and increaseDifficulty(0)
\* recomputes currentSpeed from difficulty 1.0.
startGame ==
    /\ reset
    /\ setStatePlaying
    /\ IF ~running
       THEN /\ running' = TRUE
            /\ lastTime' = now
            /\ currentSpeed' = SpeedOf(DIFFICULTY_ONE + (now - now))
            /\ rafPending' = rafPending + 1
       ELSE /\ currentSpeed' = INITIAL_SPEED * DIFFICULTY_ONE
            /\ UNCHANGED engineVars
    /\ UNCHANGED now

\* click on #start-btn
StartClick == startGame /\ dispatched' = <<ButtonEvent("start-btn")>>

\* click on #restart-btn
RestartClick == startGame /\ dispatched' = <<ButtonEvent("restart-btn")>>

\* the k-th tileMissed event of one TileSystem.update that began in `state`:
\* only the first can find the state PLAYING
MissEvent(k, state) ==
    [type |-> "tileMissed",
     kind |-> IF state = PLAYING /\ k = 1 THEN "miss" ELSE "discarded",
     state |-> IF k > 1 /\ state = PLAYING THEN GAMEOVER ELSE state,
     y |-> 0]

\* the tileMissed events of TileSystem.update, in dispatch order
MissEvents(ts, delta, state) ==
    [k \in 1..Cardinality(MissedIdx(ts, delta)) |-> MissEvent(k, state)]

\* GameEngine.update(delta) while PLAYING: TileSystem.update(delta), the
\* tileMissed handlers it triggers, then increaseDifficulty(delta)
updatePlaying(delta, column) ==
    LET ts == Spawned(delta, column) IN
    /\ spawnTimer' = SpawnTimerAfter(delta)
    /\ tiles' = Kept(ts, delta)
    /\ detached' = detached \cup Spliced(ts, delta, currentState)
    /\ IF MissedIdx(ts, delta) # {}
       THEN handleTileMiss
       ELSE UNCHANGED <<currentState, scoreVars, displayVars>>
    /\ dispatched' = MissEvents(ts, delta, currentState)
    /\ difficulty' = difficulty + delta
    /\ currentSpeed' = SpeedOf(difficulty + delta)

\* the requestAnimationFrame callback: GameEngine.loop
Loop ==
    /\ rafPending > 0
    /\ running
    /\ lastTime' = now
    /\ IF currentState = PLAYING
       THEN \E column \in 0..(COLUMNS - 1) : updatePlaying(now - lastTime, column)
       ELSE /\ dispatched' = <<>>
            /\ UNCHANGED <<currentState, scoreVars, displayVars, tileSystemVars>>
    /\ rafPending' = (rafPending - 1) + 1
    /\ UNCHANGED <<running, now>>

\* wall-clock time passes
Elapse ==
    /\ now < MaxTime
    /\ now' = now + 1
    /\ dispatched' = <<>>
    /\ UNCHANGED <<currentState, scoreVars, displayVars, tileSystemVars, engineVars>>

\* the state the constructors leave
Init ==
    /\ currentState = MENU
    /\ score = 0
    /\ combo = 0
    /\ bestCombo = 0
    /\ multiplier = 1
    /\ finalScoreText = 0
    /\ bestComboText = 0
    /\ tiles = <<>>
    /\ detached = {}
    /\ spawnTimer = 0
    /\ currentSpeed = INITIAL_SPEED * DIFFICULTY_ONE
    /\ difficulty = DIFFICULTY_ONE
    /\ lastTime = 0
    /\ running = FALSE
    /\ rafPending = 0
    /\ now = 0
    /\ dispatched = <<>>

Next ==
    \/ StartClick
    \/ RestartClick
    \/ \E i \in 1..Len(tiles) : TileClick(i)
    \/ \E t \in detached : DetachedTileClick(t)
    \/ \E i \in 1..Len(tiles) : DestroyTimeout(i)
    \/ \E t \in detached : DetachedDestroyTimeout(t)
    \/ Loop
    \/ Elapse

Spec == Init /\ [][Next]_vars

\* ---- the engine's handlers driven by dispatched events ----
\* document.dispatchEvent(new CustomEvent('tileClicked', {detail: {tile, y}}))
\* with y drawn around the two tolerances, to sub-pixel precision; the tile
\* of the detail is not one of TileSystem.tiles
ClickDistances ==
    {0, PERFECT_TOLERANCE * PX - 1, PERFECT_TOLERANCE * PX,
     PERFECT_TOLERANCE * PX + 1, HIT_ZONE_TOLERANCE * PX - 1,
     HIT_ZONE_TOLERANCE * PX, HIT_ZONE_TOLERANCE * PX + 1}

ClickYs ==
    {HIT_LINE_Y * PX - (TILE_HEIGHT * PX) \div 2 + sign * d :
        sign \in {-1, 1}, d \in ClickDistances}

TileClickedEvent(y) ==
    /\ combo < MaxCombo
    /\ handleTileClick(y)
    /\ dispatched' = <<ClickEvent(y)>>
    /\ UNCHANGED <<tileSystemVars, engineVars, now>>

TileMissedEvent ==
    /\ handleTileMiss
    /\ dispatched' = <<MissEvent(1, currentState)>>
    /\ UNCHANGED <<tileSystemVars, engineVars, now>>

NextEngine ==
    \/ StartClick
    \/ RestartClick
    \/ \E y \in ClickYs : TileClickedEvent(y)
    \/ TileMissedEvent

SpecEngine == Init /\ [][NextEngine]_vars

\* ---- the loop under fairness ----
\* The player never taps a tile; the browser keeps calling the
\* requestAnimationFrame callback, each time a positive delta after the frame
\* before it.  Times are read relative to the current frame, so that now and
\* lastTime stay equal and the run can go on without a bound on the clock.
Frame(delta) ==
    /\ rafPending > 0
    /\ running
    /\ lastTime' = now
    /\ IF currentState = PLAYING
       THEN \E column \in 0..(COLUMNS - 1) : updatePlaying(delta, column)
       ELSE /\ dispatched' = <<>>
            /\ UNCHANGED <<currentState, scoreVars, displayVars, tileSystemVars>>
    /\ rafPending' = (rafPending - 1) + 1
    /\ UNCHANGED <<running, now>>

FrameTick == \E delta \in 1..MaxFrameDelta : Frame(delta)

NextLive ==
    \/ StartClick
    \/ RestartClick
    \/ FrameTick

\* requestAnimationFrame callbacks are always run in the end
SpecLive == Init /\ [][NextLive]_vars /\ WF_vars(FrameTick)

\* ---- vocabulary of the properties ----
AllTiles == {tiles[i] : i \in 1..Len(tiles)} \cup detached

\* distance = |y + tileLength/2 - h|, in the units of y
DistanceOf(y) == Abs(y + (TILE_HEIGHT * PX) \div 2 - HIT_LINE_Y * PX)

IsTileEvent(e) == e.type \in {"tileClicked", "tileMissed"}
IsButtonEvent(e) == e.type \in {"start-btn", "restart-btn"}

\* a miss or a bad hit produced while PLAYING
IsFail(e) ==
    /\ e.state = PLAYING
    /\ \/ e.type = "tileMissed"
       \/ e.type = "tileClicked" /\ DistanceOf(e.y) > HIT_ZONE_TOLERANCE * PX

\* a perfect or good hit produced while PLAYING
IsHit(e) ==
    /\ e.state = PLAYING
    /\ e.type = "tileClicked"
    /\ DistanceOf(e.y) <= HIT_ZONE_TOLERANCE * PX

IsPerfect(e) == IsHit(e) /\ DistanceOf(e.y) <= PERFECT_TOLERANCE * PX

Some(events, P(_)) == \E k \in 1..Len(events) : P(events[k])
All(events, P(_)) == \A k \in 1..Len(events) : P(events[k])

\* C1: every tile gets at most one tileClicked/tileMissed event in its life;
\* a tile that was tapped is never judged a miss, and a missed tile is
\* inactive and was never tapped.
C1_OneJudgmentPerTile ==
    \A t \in AllTiles :
        /\ t.events <= 1
        /\ (t.events = 0) <=> (t.kind = "none")
        /\ t.clicked => t.kind \in {"perfect", "good", "bad", "discarded"}
        /\ t.kind = "miss" => ~t.clicked /\ ~t.active

\* a tapped tile, its destroy still pending, has fallen past the bottom
C1_Witness ==
    \E i \in 1..Len(tiles) :
        /\ tiles[i].clicked /\ tiles[i].active /\ tiles[i].timerPending
        /\ tiles[i].y > GAME_AREA_HEIGHT * PX
        /\ tiles[i].events = 1

\* C2: while PLAYING a miss or bad hit moves the state to GAMEOVER in the
\* same step, a perfect or good hit leaves it PLAYING, and GAMEOVER is entered
\* only from PLAYING and only by a miss or bad hit.
C2_GameOverOnFailOnly ==
    [][ /\ (currentState = PLAYING /\ Some(dispatched', IsFail))
            => currentState' = GAMEOVER
        /\ (currentState = PLAYING /\ Some(dispatched', IsHit))
            => currentState' = PLAYING
        /\ (currentState # GAMEOVER /\ currentState' = GAMEOVER)
            => currentState = PLAYING /\ Some(dispatched', IsFail)
      ]_vars

\* the run has just ended on a miss
C2_Witness ==
    /\ currentState = GAMEOVER
    /\ Len(dispatched) > 0
    /\ dispatched[1].type = "tileMissed"
    /\ dispatched[1].state = PLAYING

\* C3: in the GAMEOVER state reached through a miss, combo = 0 and
\* multiplier = 1.
C3_MissResetsCombo ==
    ( /\ currentState = GAMEOVER
      /\ Len(dispatched) > 0
      /\ dispatched[1].type = "tileMissed"
      /\ dispatched[1].state = PLAYING )
    => (combo = 0 /\ multiplier = 1)

\* C4: in every reachable state multiplier = floor(combo / 5) + 1.
C4_MultiplierFormula == multiplier = (combo \div 5) + 1

\* the fifth hit in a row has raised the multiplier
C4_Witness == combo = 5 /\ multiplier = 2

\* C5: a step whose tile events were all produced outside PLAYING changes
\* neither score, combo, bestCombo, multiplier nor the state.
C5_DiscardedOutsidePlaying ==
    [][ ( /\ Some(dispatched', IsTileEvent)
          /\ \A k \in 1..Len(dispatched') : dispatched'[k].state # PLAYING )
        => UNCHANGED <<scoreVars, currentState>>
      ]_vars

\* a well-timed tap arrived after the run had ended
C5_Witness ==
    /\ currentState = GAMEOVER
    /\ Len(dispatched) = 1
    /\ dispatched[1].type = "tileClicked"
    /\ dispatched[1].state = GAMEOVER
    /\ DistanceOf(dispatched[1].y) <= HIT_ZONE_TOLERANCE * PX

\* C6: a tap handled while PLAYING is perfect (150 points, run goes on) when
\* distance <= 20, good (100 points, run goes on) when 20 < distance <= 50,
\* and bad (run ends, nothing scored) when distance > 50.
C6_Classification ==
    [][ \A k \in 1..Len(dispatched') :
          LET e == dispatched'[k]
              d == DistanceOf(e.y)
          IN  (e.type = "tileClicked" /\ e.state = PLAYING) =>
                /\ d <= PERFECT_TOLERANCE * PX =>
                     /\ e.kind = "perfect"
                     /\ score' = score + 150 * multiplier
                     /\ currentState' = PLAYING
                /\ (PERFECT_TOLERANCE * PX < d /\ d <= HIT_ZONE_TOLERANCE * PX) =>
                     /\ e.kind = "good"
                     /\ score' = score + 100 * multiplier
                     /\ currentState' = PLAYING
                /\ d > HIT_ZONE_TOLERANCE * PX =>
                     /\ e.kind = "bad"
                     /\ score' = score
                     /\ currentState' = GAMEOVER
      ]_vars

\* a tap exactly HIT_ZONE_TOLERANCE away from the hit line was judged good
C6_Witness ==
    /\ Len(dispatched) = 1
    /\ dispatched[1].type = "tileClicked"
    /\ dispatched[1].state = PLAYING
    /\ dispatched[1].kind = "good"
    /\ DistanceOf(dispatched[1].y) = HIT_ZONE_TOLERANCE * PX
    /\ currentState = PLAYING

\* C7: a hit adds 150 (perfect) or 100 times the multiplier held before the
\* hit, then combo grows by one and the multiplier is recomputed; after five
\* perfect hits (score 750) the multiplier is 2 and the sixth adds 300.
C7_HitScoring ==
    [][ Some(dispatched', IsHit) =>
          /\ score' = score +
                (IF Some(dispatched', IsPerfect) THEN 150 ELSE 100) * multiplier
          /\ combo' = combo + 1
          /\ multiplier' = (combo' \div 5) + 1
          /\ (combo' = 5 /\ score' = 750) => multiplier' = 2
          /\ (combo = 5 /\ score = 750 /\ Some(dispatched', IsPerfect))
                => score' = 1050
      ]_vars

\* six perfect hits in a row from a fresh session
C7_Witness == combo = 6 /\ score = 1050 /\ multiplier = 2

\* C8: a miss or bad hit leaves the score unchanged; only a start or restart
\* lowers the score; the score shown at GAMEOVER is the score held before the
\* judgment that ended the run, and both stay as they are while GAMEOVER.
C8_ScoreKept ==
    [][ /\ Some(dispatched', IsFail) => score' = score
        /\ score' < score => Some(dispatched', IsButtonEvent)
        /\ (currentState = PLAYING /\ currentState' = GAMEOVER)
            => finalScoreText' = score
        /\ (currentState = GAMEOVER /\ currentState' = GAMEOVER)
            => (score' = score /\ finalScoreText' = finalScoreText)
      ]_vars

\* a run that had scored has just ended
C8_Witness ==
    /\ currentState = GAMEOVER
    /\ score > 0
    /\ finalScoreText = score
    /\ Some(dispatched, IsFail)

\* C9: a restart request while MENU, and a start or restart request while
\* PLAYING, change neither the state, the score state nor the tile system.
C9_InvalidRequestIgnored ==
    [][ ( \/ currentState = MENU /\ Some(dispatched', LAMBDA e :
                e.type = "restart-btn" /\ e.state = MENU)
          \/ currentState = PLAYING /\ Some(dispatched', LAMBDA e :
                IsButtonEvent(e) /\ e.state = PLAYING) )
        => UNCHANGED <<currentState, scoreVars, tiles, spawnTimer, difficulty,
                       currentSpeed>>
      ]_vars

\* C10: GAMEOVER is left only by a step that handles a button click, and that
\* step enters PLAYING; once left, MENU is never entered again.
C10_GameOverExit ==
    [][ /\ (currentState = GAMEOVER /\ currentState' # GAMEOVER)
            => (Some(dispatched', IsButtonEvent) /\ currentState' = PLAYING)
        /\ currentState # MENU => currentState' # MENU
      ]_vars

\* a destroy callback ran after the run had ended
C10_Witness ==
    /\ currentState = GAMEOVER
    /\ dispatched = <<>>
    /\ \E t \in AllTiles : t.kind \in {"perfect", "good"} /\ ~t.active
                           /\ ~t.timerPending

\* C11: every entry into PLAYING, by a start from MENU or a restart from
\* GAMEOVER, leaves score 0, combo 0, bestCombo 0, multiplier 1 and no live
\* tile, whatever the previous run left behind.
C11_EntryResets ==
    [][(currentState # PLAYING /\ currentState' = PLAYING)
           => /\ Some(dispatched', IsButtonEvent)
              /\ score' = 0
              /\ combo' = 0
              /\ bestCombo' = 0
              /\ multiplier' = 1
              /\ tiles' = <<>>]_vars

\* a restart from GAMEOVER has just been handled; the previous run had scored
\* and one of its tapped tiles still waits for its destroy timer
C11_Witness ==
    /\ currentState = PLAYING
    /\ Some(dispatched, LAMBDA e : IsButtonEvent(e) /\ e.state = GAMEOVER)
    /\ finalScoreText > 0
    /\ bestComboText > 0
    /\ \E t \in detached : t.clicked /\ t.timerPending /\ t.active = FALSE
    /\ score = 0 /\ combo = 0 /\ bestCombo = 0 /\ multiplier = 1
    /\ tiles = <<>>

\* C12: after TileSystem.reset() there is no live tile, every tile that was
\* live is inactive, the spawn accumulator is 0, the difficulty level is 0 and
\* currentSpeed is INITIAL_SPEED.  Stated for the reset of a restart, where
\* nothing else touches the tile system before the handler returns.
C12_ResetState ==
    [][(running /\ Some(dispatched', IsButtonEvent))
           => /\ tiles' = <<>>
              /\ \A i \in 1..Len(tiles) :
                     \E t \in detached' : ~t.active /\ t.events = tiles[i].events
              /\ \A t \in detached' : ~t.active
              /\ spawnTimer' = 0
              /\ difficulty' = 0
              /\ currentSpeed' = INITIAL_SPEED * DIFFICULTY_ONE]_vars

\* C13: currentSpeed is never below INITIAL_SPEED; between two resets the
\* difficulty and currentSpeed never decrease; so every live tile got a speed
\* of at least INITIAL_SPEED and at least the speed of every tile spawned
\* before it in the run (TileSystem.tiles is in spawn order).
C13_SpeedMonotone ==
    [][/\ currentSpeed' >= INITIAL_SPEED * DIFFICULTY_ONE
       /\ ~Some(dispatched', IsButtonEvent)
              => (difficulty' >= difficulty /\ currentSpeed' >= currentSpeed)
       /\ \A j \in 1..Len(tiles') :
              /\ tiles'[j].speed >= INITIAL_SPEED * DIFFICULTY_ONE
              /\ tiles'[j].speed <= currentSpeed'
              /\ \A i \in 1..(j - 1) : tiles'[i].speed <= tiles'[j].speed]_vars

\* a run in which a later tile got a strictly higher speed than an earlier
\* one, and currentSpeed has grown past both
C13_Witness ==
    /\ currentState = PLAYING
    /\ Len(tiles) >= 2
    /\ tiles[1].speed >= INITIAL_SPEED * DIFFICULTY_ONE
    /\ tiles[1].speed < tiles[2].speed
    /\ tiles[2].speed < currentSpeed

\* C14: a tick spawns at most one tile whatever its delta.  When the
\* accumulator plus delta reaches SPAWN_INTERVAL exactly one tile is created,
\* in a column of 0..COLUMNS-1 and at -TILE_HEIGHT before the advance of that
\* tick, and the accumulator becomes 0 with no carry-over; otherwise no tile
\* is created and the accumulator grows by delta.  After every step the
\* accumulator is below SPAWN_INTERVAL.  (A tick with a positive delta is a
\* step that raises the difficulty; the tile created by a tick is the one
\* whose advances are measured from the lastTime the tick began with; a
\* created tile that the same tick carries past the bottom is reported missed
\* and does not stay in the list.)
C14_OneSpawnPerTick ==
    [][/\ spawnTimer' < SPAWN_INTERVAL
       /\ Len(tiles') <= Len(tiles) + 1
       /\ difficulty' > difficulty =>
              LET delta == now - lastTime
                  due == spawnTimer + delta >= SPAWN_INTERVAL
                  fresh == {j \in 1..Len(tiles') : tiles'[j].born = lastTime}
                  beyond == -(TILE_HEIGHT * PX) + currentSpeed * delta
                                > GAME_AREA_HEIGHT * PX
              IN  /\ \A j \in (1..Len(tiles')) \ fresh :
                         \E i \in 1..Len(tiles) :
                             tiles'[j] = TileUpdate(tiles[i], delta)
                  /\ due => /\ spawnTimer' = 0
                            /\ fresh = IF beyond THEN {} ELSE {Len(tiles')}
                            /\ beyond => Some(dispatched', LAMBDA e :
                                              e.type = "tileMissed")
                  /\ ~due => /\ spawnTimer' = spawnTimer + delta
                             /\ fresh = {}
                  /\ \A j \in fresh :
                         /\ tiles'[j].column \in 0..(COLUMNS - 1)
                         /\ tiles'[j].speed = currentSpeed
                         /\ tiles'[j].y - tiles'[j].speed * delta
                                = -(TILE_HEIGHT * PX)
                         /\ tiles'[j].active
                         /\ ~tiles'[j].clicked]_vars

\* the first tick of a run that applied a delta came SPAWN_INTERVAL + 1 after
\* the start: it created the only tile and left the accumulator at 0, not at
\* the excess
C14_Witness ==
    /\ currentState = PLAYING
    /\ Len(tiles) = 1
    /\ difficulty = DIFFICULTY_ONE + SPAWN_INTERVAL + 1
    /\ lastTime = tiles[1].born + SPAWN_INTERVAL + 1
    /\ tiles[1].y = -(TILE_HEIGHT * PX) + tiles[1].speed * (SPAWN_INTERVAL + 1)
    /\ spawnTimer = 0

\* C15: the advance of a tile is a pure integration over time.  For every
\* active tile, advancing by d1 and then by d2 gives the tile that advancing
\* once by d1 + d2 gives, and advancing an inactive tile leaves it where it
\* is; and while PLAYING every live active tile stands at
\* -TILE_HEIGHT + speed * (time since its first advance began), however the
\* frames divided that time.
C15_AdvanceAdditive ==
    /\ \A t \in AllTiles : \A d1, d2 \in 0..MaxAdvance :
           /\ t.active =>
                  TileUpdate(TileUpdate(t, d1), d2) = TileUpdate(t, d1 + d2)
           /\ ~t.active => TileUpdate(t, d1).y = t.y
    /\ currentState = PLAYING =>
           \A i \in 1..Len(tiles) :
               tiles[i].active =>
                   tiles[i].y = -(TILE_HEIGHT * PX)
                                + tiles[i].speed * (lastTime - tiles[i].born)

\* the only live tile was advanced by the tick that created it and by at
\* least one later tick, both with positive deltas (the accumulator, 0 after
\* the creating tick, holds the time of the later ones)
C15_Witness ==
    /\ currentState = PLAYING
    /\ Len(tiles) = 1
    /\ tiles[1].active
    /\ spawnTimer > 0
    /\ lastTime - tiles[1].born > spawnTimer
    /\ tiles[1].y > -(TILE_HEIGHT * PX) + tiles[1].speed * spawnTimer

\* C16: bestCombo is the running maximum of combo within a session.  Always
\* bestCombo >= combo; outside the handling of a start or restart request
\* neither bestCombo nor combo decreases, so the largest combo of the session
\* is the current one; and the bestCombo shown on entering GAMEOVER is that
\* largest combo.
C16_BestComboRunningMax ==
    [][/\ bestCombo' >= combo'
       /\ ~Some(dispatched', IsButtonEvent)
              => (bestCombo' >= bestCombo /\ combo' >= combo)
       /\ (currentState = PLAYING /\ currentState' = GAMEOVER)
              => (bestComboText' = bestCombo' /\ bestCombo' = combo')]_vars

\* a miss or bad hit has just ended a session in which the combo had grown
\* to 2 or more
C16_Witness ==
    /\ currentState = GAMEOVER
    /\ Some(dispatched, IsFail)
    /\ combo >= 2
    /\ bestCombo = combo
    /\ bestComboText = combo

\* position and column of the live tiles, in list order
LiveTiles == [i \in 1..Len(tiles) |-> <<tiles[i].column, tiles[i].y>>]

\* C17: the tile system is driven only while PLAYING.  A step that changes
\* the positions of the tiles, the live tiles, the spawn accumulator, the
\* difficulty or currentSpeed, other than the reset of a start or restart
\* request, begins in PLAYING; and in the tick in which a miss moves the state
\* to GAMEOVER, increaseDifficulty is not applied and no tile that the loop
\* visits after the missed one (a tile of a lower index) is advanced.
C17_DrivenOnlyWhilePlaying ==
    [][/\ (/\ <<LiveTiles, spawnTimer, difficulty, currentSpeed>>'
                # <<LiveTiles, spawnTimer, difficulty, currentSpeed>>
            /\ ~Some(dispatched', IsButtonEvent))
              => currentState = PLAYING
       /\ (/\ currentState = PLAYING
            /\ currentState' = GAMEOVER
            /\ Some(dispatched', LAMBDA e : e.type = "tileMissed"))
              => LET delta == now - lastTime
                     missed(k) == IsMissed(TileUpdate(tiles[k], delta))
                     freshMissed ==
                         /\ spawnTimer + delta >= SPAWN_INTERVAL
                         /\ -(TILE_HEIGHT * PX) + currentSpeed * delta
                                > GAME_AREA_HEIGHT * PX
                 IN  /\ difficulty' = difficulty
                     /\ currentSpeed' = currentSpeed
                     /\ \A i \in 1..Len(tiles) :
                            (freshMissed \/ \E k \in (i + 1)..Len(tiles) : missed(k))
                              => \A j \in 1..Len(tiles') :
                                     tiles'[j].born = tiles[i].born
                                         => tiles'[j].y = tiles[i].y]_vars

\* a start from MENU or a restart from GAMEOVER
IsEntryRequest(e) == IsButtonEvent(e) /\ e.state \in {MENU, GAMEOVER}

\* C18: the delta applied to the simulation never includes time that passed
\* outside the run.  When a start from MENU or a restart from GAMEOVER has
\* been handled, the time from which the loop measures its next delta is the
\* time of the request (not the initial lastTime of 0, not a time in
\* GAMEOVER); and a frame that comes before any time has passed since the
\* request applies no time to the run.
C18_DeltaWithinRun ==
    [][/\ Some(dispatched', IsEntryRequest) => lastTime' = now'
       /\ (/\ Some(dispatched, IsEntryRequest)
            /\ now' = now
            /\ ~Some(dispatched', IsButtonEvent))
              => (difficulty' = difficulty /\ spawnTimer' = spawnTimer)]_vars

\* C20: at most one game-loop chain is ever active.  Whatever start and
\* restart requests were handled, exactly one loop callback is pending once
\* the loop runs (none before), the time from which the next delta is
\* measured is never in the future, and while PLAYING no live tile has been
\* advanced for more time than has passed since its first advance began.
C20_OneLoopChain ==
    /\ rafPending = (IF running THEN 1 ELSE 0)
    /\ lastTime <= now
    /\ currentState = PLAYING =>
           \A i \in 1..Len(tiles) :
               tiles[i].y + TILE_HEIGHT * PX
                   <= tiles[i].speed * (now - tiles[i].born)

\* a restart from GAMEOVER has just been handled while the loop, started by
\* an earlier request, was running and had already taken frames
C20_Witness ==
    /\ running
    /\ rafPending = 1
    /\ currentState = PLAYING
    /\ Some(dispatched, LAMBDA e : IsButtonEvent(e) /\ e.state = GAMEOVER)
    /\ lastTime > 0

\* C19: a run cannot last forever without correct play.  While the loop
\* keeps ticking with positive deltas and the player never taps a tile, a
\* game that is PLAYING is eventually GAMEOVER.
C19_RunEnds == (currentState = PLAYING) ~> (currentState = GAMEOVER)

\* ---- sanity of the model ----
TypeOK == currentState \in GAME_STATES

\* every tile outside TileSystem.tiles is inactive
DetachedInactive == \A t \in detached : ~t.active

\* under SpecLive every run that no request replaces ends in GAMEOVER
EveryRunEnds ==
    (currentState = PLAYING)
        ~> (currentState = GAMEOVER \/ Some(dispatched, IsButtonEvent))

====
